---- MODULE Spec2Model ----
(***************************************************************************)
(* A model of the iping.online client: the auth provider's session         *)
(* bootstrap (SupabaseAuthContext.tsx), the route guard (App.tsx), the     *)
(* ApiService wrappers (apiService), the follow helpers and the backend    *)
(* rules of the migration 20251128080000_fix_rls_and_triggers.sql.         *)
(***************************************************************************)
EXTENDS Integers, Sequences, FiniteSets, TLC

\* ------------------------------------------------------------------ bounds
MaxEvents == 2
MaxInFlight == 2

\* ------------------------------------------------------------- shared data
Users == {"u1", "u2"}
NullUser == "null"
NullSession == [user |-> NullUser]
Sessions == [user : Users]
AuthStates == Sessions \cup {NullSession}

\* profiles.is_admin of the backend, as read by fetchUserProfile
AdminUsers == {"u1"}

VARIABLES
  \* ---- AuthProvider (SupabaseAuthContext.tsx)
  life,            \* "new" | "mounted" | "unmounted": the effect's isMounted flag
  user, session, loading, isAdmin,   \* the four useState cells
  subs,            \* number of live onAuthStateChange subscriptions
  calls,           \* the SDK calls the effect has issued, in order
  backendSession,  \* the backend's current auth state
  events,          \* auth state changes emitted to the subscription, not yet handled
  initPc,          \* where initializeAuth stands
  initRead,        \* the session the pending getSession call has read
  timer,           \* the safety timeout: "none" | "armed" | "fired"
  handlers,        \* handleAuthStateChange calls awaiting fetchUserProfile (a bag)
  stuck,           \* some profile fetch will never settle
  \* ---- router (App.tsx)
  view,            \* the element each route of <Routes> renders
  \* ---- the backend's database, storage and auth tables
  pgPolicies,      \* names of the policies on public.pings (pg_policies)
  triggers,        \* number of triggers named on_auth_user_created on auth.users
  fnDefined,       \* public.handle_new_user exists
  migrations,      \* how often the migration has been applied
  pings, nextId,   \* public.pings and its next id
  authUsers,       \* auth.users
  profiles,        \* public.profiles
  follows,         \* public.follows
  storage,         \* the objects of the storage buckets
  \* ---- the client SDK and the last operation it ran
  apiSession,      \* what supabase.auth.getSession() answers
  lastOp           \* the last request or service call: input, backend calls, result, toasts

authVars == <<life, user, session, loading, isAdmin, subs, calls, backendSession,
              events, initPc, initRead, timer, handlers, stuck, view>>

migVars == <<pgPolicies, triggers, fnDefined, migrations>>
pingVars == <<pings, nextId>>
userVars == <<authUsers, profiles>>
dbVars == <<migVars, pingVars, userVars, follows, storage, apiSession, lastOp>>

vars == <<authVars, dbVars>>

\* SQL NULL, JavaScript null and undefined, as text values
Null == <<"null">>
Undefined == <<"undefined">>
NoResult == [kind |-> "null"]
NoOp == [op |-> "none", uid |-> NullUser, input |-> <<>>, fail |-> "none", calls |-> <<>>,
         result |-> NoResult, toasts |-> <<>>]

\* the database is not in use
DbIdle ==
  /\ pgPolicies = {} /\ triggers = 0 /\ fnDefined = FALSE /\ migrations = 0
  /\ pings = {} /\ nextId = 1
  /\ authUsers = {} /\ profiles = {}
  /\ follows = {} /\ storage = {}
  /\ apiSession = NullSession
  /\ lastOp = NoOp

\* ------------------------------------------------------------------ App.tsx
ProtectedRoutes == {"/", "/:username", "/profile", "/post/:id", "/search",
                    "/notifications", "/chats", "/chats/:chatId", "/settings"}
Routes == ProtectedRoutes \cup {"/auth", "*"}

PageOf(r) ==
  CASE r = "/auth" -> "SupabaseAuth"
    [] r = "/" -> "Home"
    [] r = "/:username" -> "Profile"
    [] r = "/profile" -> "Profile"
    [] r = "/post/:id" -> "PostDetail"
    [] r = "/search" -> "SearchResults"
    [] r = "/notifications" -> "Notifications"
    [] r = "/chats" -> "Chats"
    [] r = "/chats/:chatId" -> "ChatConversation"
    [] r = "/settings" -> "Settings"
    [] OTHER -> "NotFound"

\* a mutant: the loading test is skipped
AuthRequiredWrapperNoLoading(u, l, children) ==
  IF u = NullUser THEN "Navigate:/auth" ELSE children

AuthRequiredWrapper(u, l, children) ==
  IF l THEN "AppSkeleton"
  ELSE IF u = NullUser THEN "Navigate:/auth"
  ELSE children

RouteElement(r, u, l) ==
  IF r \in ProtectedRoutes THEN AuthRequiredWrapper(u, l, PageOf(r)) ELSE PageOf(r)

\* --------------------------------------------------- SupabaseAuthContext.tsx
UserOf(s) == s.user

\* a pending handleAuthStateChange call: whose profile it fetches, and who called it
HandlerKinds == [uid : Users, origin : {"event", "init"}]
EventKinds == {h \in HandlerKinds : h.origin = "event"}

RECURSIVE BagSum(_, _)
BagSum(b, S) == IF S = {} THEN 0
                ELSE LET x == CHOOSE y \in S : TRUE IN b[x] + BagSum(b, S \ {x})
InFlight(b) == BagSum(b, EventKinds)
NoHandlers(b) == \A h \in HandlerKinds : b[h] = 0

\* the value of `loading` the effect's closures see: the first render's
ClosureLoading == TRUE

IsMounted == life = "mounted"

\* React re-renders the tree after a handler has set state
Render ==
  view' = [r \in Routes |-> IF life' = "mounted" THEN RouteElement(r, user', loading') ELSE "none"]

InitAuth ==
  /\ life = "new"
  /\ user = NullUser /\ session = NullSession /\ loading = TRUE /\ isAdmin = FALSE
  /\ subs = 0 /\ calls = <<>>
  /\ backendSession \in AuthStates
  /\ events = <<>>
  /\ initPc = "idle" /\ initRead = NullSession
  /\ timer = "none"
  /\ handlers = [h \in HandlerKinds |-> 0]
  /\ stuck = FALSE
  /\ view = [r \in Routes |-> "none"]
  /\ DbIdle

\* a variant: initializeAuth is started before the subscription is made
MountGetSessionFirst ==
  /\ life = "new"
  /\ life' = "mounted"
  /\ subs' = subs + 1
  /\ calls' = <<"getSession", "onAuthStateChange">>
  /\ initPc' = "awaitGetSession"
  /\ UNCHANGED <<user, session, loading, isAdmin, backendSession, events, initRead,
                 timer, handlers, stuck>>
  /\ Render
  /\ UNCHANGED dbVars

\* the useEffect body: subscribe, then start initializeAuth up to its first await
Mount ==
  /\ life = "new"
  /\ life' = "mounted"
  /\ subs' = subs + 1
  /\ calls' = <<"onAuthStateChange", "getSession">>
  /\ initPc' = "awaitGetSession"
  /\ UNCHANGED <<user, session, loading, isAdmin, backendSession, events, initRead,
                 timer, handlers, stuck>>
  /\ Render
  /\ UNCHANGED dbVars

\* the effect's cleanup
Unmount ==
  /\ life = "mounted"
  /\ life' = "unmounted"
  /\ subs' = subs - 1
  /\ events' = <<>>
  /\ UNCHANGED <<user, session, loading, isAdmin, calls, backendSession, initPc,
                 initRead, timer, handlers, stuck>>
  /\ Render
  /\ UNCHANGED dbVars

\* the backend's auth state changes (sign in, sign out, token refresh, another tab)
AuthChange(s) ==
  /\ life # "new"
  /\ Len(events) < MaxEvents
  /\ backendSession' = s
  /\ events' = IF subs > 0 THEN Append(events, s) ELSE events
  /\ UNCHANGED <<life, user, session, loading, isAdmin, subs, calls, initPc, initRead,
                 timer, handlers, stuck, view>>
  /\ UNCHANGED dbVars

\* handleAuthStateChange up to its await (or to its end when there is no user)
HandleSync(s, origin) ==
  IF ~IsMounted
  THEN UNCHANGED <<user, session, loading, isAdmin, handlers>>
  ELSE /\ session' = s
       /\ user' = UserOf(s)
       /\ IF UserOf(s) # NullUser
          THEN /\ handlers' = [handlers EXCEPT ![[uid |-> UserOf(s), origin |-> origin]] = @ + 1]
               /\ UNCHANGED <<loading, isAdmin>>
          ELSE /\ isAdmin' = FALSE
               /\ loading' = FALSE
               /\ UNCHANGED handlers

\* the subscription's callback runs for the next emitted event
DeliverEvent ==
  /\ subs > 0
  /\ events # <<>>
  /\ InFlight(handlers) < MaxInFlight
  /\ HandleSync(Head(events), "event")
  /\ events' = Tail(events)
  /\ UNCHANGED <<life, subs, calls, backendSession, initPc, initRead, timer, stuck>>
  /\ Render
  /\ UNCHANGED dbVars

\* the backend answers getSession: the promise resolves with the session read now
GetSessionRead ==
  /\ initPc = "awaitGetSession"
  /\ initPc' = "resolved"
  /\ initRead' = backendSession
  /\ UNCHANGED <<life, user, session, loading, isAdmin, subs, calls, backendSession,
                 events, timer, handlers, stuck, view>>
  /\ UNCHANGED dbVars

\* getSession rejects
GetSessionReject ==
  /\ initPc = "awaitGetSession"
  /\ initPc' = "rejected"
  /\ UNCHANGED <<life, user, session, loading, isAdmin, subs, calls, backendSession,
                 events, initRead, timer, handlers, stuck, view>>
  /\ UNCHANGED dbVars

\* getSession never settles
GetSessionHang ==
  /\ initPc = "awaitGetSession"
  /\ initPc' = "hung"
  /\ UNCHANGED <<life, user, session, loading, isAdmin, subs, calls, backendSession,
                 events, initRead, timer, handlers, stuck, view>>
  /\ UNCHANGED dbVars

\* initializeAuth after its await: arm the timeout, then take a branch
InitResume ==
  /\ initPc = "resolved"
  /\ timer' = "armed"
  /\ IF initRead # NullSession
     THEN /\ HandleSync(initRead, "init")
          /\ initPc' = IF IsMounted THEN "awaitHandler" ELSE "done"
     ELSE /\ initPc' = "done"
          /\ IF IsMounted
             THEN /\ user' = NullUser /\ session' = NullSession
                  /\ isAdmin' = FALSE /\ loading' = FALSE
             ELSE UNCHANGED <<user, session, isAdmin, loading>>
          /\ UNCHANGED handlers
  /\ UNCHANGED <<life, subs, calls, backendSession, events, initRead, stuck>>
  /\ Render
  /\ UNCHANGED dbVars

\* initializeAuth's catch block
InitCatch ==
  /\ initPc = "rejected"
  /\ initPc' = "failed"
  /\ IF IsMounted
     THEN /\ user' = NullUser /\ session' = NullSession
          /\ isAdmin' = FALSE /\ loading' = FALSE
     ELSE UNCHANGED <<user, session, isAdmin, loading>>
  /\ UNCHANGED <<life, subs, calls, backendSession, events, initRead, timer, handlers,
                 stuck>>
  /\ Render
  /\ UNCHANGED dbVars

\* fetchUserProfile's result: data?.is_admin ?? false, false on an error
FetchUserProfile(uid, err) == IF err THEN FALSE ELSE uid \in AdminUsers

\* the profile fetch of a pending handler settles; handleAuthStateChange runs to its end
FetchSettle(h, err) ==
  /\ handlers[h] > 0
  /\ handlers' = [handlers EXCEPT ![h] = @ - 1]
  /\ IF IsMounted
     THEN /\ isAdmin' = FetchUserProfile(h.uid, err)
          /\ loading' = FALSE
     ELSE UNCHANGED <<isAdmin, loading>>
  /\ initPc' = IF h.origin = "init" THEN "done" ELSE initPc
  /\ UNCHANGED <<life, user, session, subs, calls, backendSession, events, initRead,
                 timer, stuck>>
  /\ Render
  /\ UNCHANGED dbVars

\* the profile fetch of a pending handler never settles: the handler stays suspended
FetchHang(h) ==
  /\ handlers[h] > 0
  /\ handlers' = [handlers EXCEPT ![h] = @ - 1]
  /\ stuck' = TRUE
  /\ UNCHANGED <<life, user, session, loading, isAdmin, subs, calls, backendSession,
                 events, initPc, initRead, timer, view>>
  /\ UNCHANGED dbVars

\* the safety timeout's callback
TimeoutFire ==
  /\ timer = "armed"
  /\ timer' = "fired"
  /\ loading' = IF IsMounted /\ ClosureLoading THEN FALSE ELSE loading
  /\ UNCHANGED <<life, user, session, isAdmin, subs, calls, backendSession, events,
                 initPc, initRead, handlers, stuck>>
  /\ Render
  /\ UNCHANGED dbVars

NextAuth ==
  \/ Mount
  \/ Unmount
  \/ \E s \in AuthStates : AuthChange(s)
  \/ DeliverEvent
  \/ GetSessionRead
  \/ GetSessionReject
  \/ GetSessionHang
  \/ InitResume
  \/ InitCatch
  \/ \E h \in HandlerKinds, err \in BOOLEAN : FetchSettle(h, err)
  \/ \E h \in HandlerKinds : FetchHang(h)
  \/ TimeoutFire

SpecAuth == InitAuth /\ [][NextAuth]_vars

\* every step of the provider's own code, and every call that is not stuck, runs
FairAuth ==
  /\ SpecAuth
  /\ WF_vars(Mount)
  /\ WF_vars(DeliverEvent)
  /\ WF_vars(GetSessionRead \/ GetSessionReject \/ GetSessionHang)
  /\ WF_vars(InitResume)
  /\ WF_vars(InitCatch)
  /\ WF_vars(\E h \in HandlerKinds, err \in BOOLEAN : FetchSettle(h, err))
  /\ WF_vars(TimeoutFire)

\* the auth provider is not in use
AuthIdle ==
  /\ life = "new"
  /\ user = NullUser /\ session = NullSession /\ loading = TRUE /\ isAdmin = FALSE
  /\ subs = 0 /\ calls = <<>>
  /\ backendSession = NullSession
  /\ events = <<>>
  /\ initPc = "idle" /\ initRead = NullSession
  /\ timer = "none"
  /\ handlers = [h \in HandlerKinds |-> 0]
  /\ stuck = FALSE
  /\ view = [r \in Routes |-> "none"]

\* ------------------------------- 20251128080000_fix_rls_and_triggers.sql
MaxMigrations == 2
MaxPings == 2

PingsPolicyNames == {"Users can create pings.", "Users can update their own pings.",
                     "Users can delete their own pings."}

PolicyCmd(name) ==
  CASE name = "Users can create pings." -> "INSERT"
    [] name = "Users can update their own pings." -> "UPDATE"
    [] name = "Users can delete their own pings." -> "DELETE"

\* SQL's = : NULL = x is not true
SqlEq(a, b) == a # NullUser /\ b # NullUser /\ a = b

\* a mutant: the UPDATE policy lets every row through
PolicyExprOpenUpdate(name, uid, row) ==
  CASE name = "Users can create pings." -> SqlEq(uid, row.user_id)
    [] name = "Users can update their own pings." -> TRUE
    [] name = "Users can delete their own pings." -> SqlEq(uid, row.user_id)

\* the WITH CHECK / USING expression of each policy, for auth.uid() = uid
PolicyExpr(name, uid, row) ==
  CASE name = "Users can create pings." -> SqlEq(uid, row.user_id)
    [] name = "Users can update their own pings." -> SqlEq(uid, row.user_id)
    [] name = "Users can delete their own pings." -> SqlEq(uid, row.user_id)

\* row-level security is enabled on public.pings; its policies are permissive
PingsRlsEnabled == TRUE
Allowed(cmd, uid, row) ==
  PingsRlsEnabled => \E p \in pgPolicies : PolicyCmd(p) = cmd /\ PolicyExpr(p, uid, row)

\* the catalog the migration reads and writes; failed: a statement has raised
Catalog == [policies |-> pgPolicies, fn |-> fnDefined, triggers |-> triggers, failed |-> FALSE]

\* CREATE POLICY raises when the table already has a policy of that name
CreatePolicy(db, name) ==
  IF db.failed THEN db
  ELSE IF name \in db.policies THEN [db EXCEPT !.failed = TRUE]
  ELSE [db EXCEPT !.policies = @ \cup {name}]
\* DO $$ IF NOT EXISTS (SELECT 1 FROM pg_policies ...) THEN CREATE POLICY ... $$
CreatePolicyIfNotExists(db, name) ==
  IF db.failed \/ name \in db.policies THEN db ELSE CreatePolicy(db, name)
CreateOrReplaceFunction(db) == IF db.failed THEN db ELSE [db EXCEPT !.fn = TRUE]
DropTriggerIfExists(db) ==
  IF db.failed THEN db
  ELSE [db EXCEPT !.triggers = IF @ > 0 THEN @ - 1 ELSE @]
\* CREATE TRIGGER raises when the table already has a trigger of that name
CreateTrigger(db) ==
  IF db.failed THEN db
  ELSE IF db.triggers > 0 THEN [db EXCEPT !.failed = TRUE]
  ELSE [db EXCEPT !.triggers = @ + 1]

\* a variant: the file without its DROP TRIGGER IF EXISTS
RunMigrationNoDrop(db) ==
  CreateTrigger(
    CreateOrReplaceFunction(
      CreatePolicyIfNotExists(
        CreatePolicyIfNotExists(
          CreatePolicyIfNotExists(db, "Users can create pings."),
          "Users can update their own pings."),
        "Users can delete their own pings.")))

\* the statements of the file, in order
RunMigration(db) ==
  CreateTrigger(
    DropTriggerIfExists(
      CreateOrReplaceFunction(
        CreatePolicyIfNotExists(
          CreatePolicyIfNotExists(
            CreatePolicyIfNotExists(db, "Users can create pings."),
            "Users can update their own pings."),
          "Users can delete their own pings."))))

\* the whole migration file, run once more; a run that raises is rolled back
ApplyMigration ==
  /\ migrations < MaxMigrations
  /\ LET db == RunMigration(Catalog)
     IN /\ migrations' = IF db.failed THEN migrations ELSE migrations + 1
        /\ pgPolicies' = IF db.failed THEN pgPolicies ELSE db.policies
        /\ fnDefined' = IF db.failed THEN fnDefined ELSE db.fn
        /\ triggers' = IF db.failed THEN triggers ELSE db.triggers
        /\ lastOp' = [NoOp EXCEPT !.op = "migrate",
                                  !.fail = IF db.failed THEN "error" ELSE "none"]
  /\ UNCHANGED <<pingVars, userVars, follows, storage, apiSession>>
  /\ UNCHANGED authVars

\* ------------------------------------------------ requests on public.pings
Contents == {"c1", "c2"}
PingIds == 1..MaxPings
NewPing(id, uid, content, image) ==
  [id |-> id, user_id |-> uid, content |-> content, image_url |-> image]

\* INSERT of one row by a client whose auth.uid() is uid: the new table, or an error
InsertOk(uid, row) == Allowed("INSERT", uid, row)

\* UPDATE ... WHERE id IN ids: USING picks the rows, the new rows must pass the check
UpdateTargets(uid, ids) == {r \in pings : r.id \in ids /\ Allowed("UPDATE", uid, r)}
Updated(r, newOwner, content) == [r EXCEPT !.user_id = newOwner, !.content = content]
UpdateOk(uid, ids, newOwner, content) ==
  \A r \in UpdateTargets(uid, ids) : Allowed("UPDATE", uid, Updated(r, newOwner, content))

DeleteTargets(uid, ids) == {r \in pings : r.id \in ids /\ Allowed("DELETE", uid, r)}

\* the record of a raw request: who asked, and whether the policies let it through
Request(op, uid, ok) ==
  [NoOp EXCEPT !.op = op, !.uid = uid, !.fail = IF ok THEN "none" ELSE "denied"]

InsertPing(uid, owner, content) ==
  /\ migrations > 0
  /\ nextId <= MaxPings
  /\ LET row == NewPing(nextId, owner, content, Null)
         ok == InsertOk(uid, row)
     IN /\ pings' = IF ok THEN pings \cup {row} ELSE pings
        /\ nextId' = IF ok THEN nextId + 1 ELSE nextId
        /\ lastOp' = Request("insertPing", uid, ok)
  /\ UNCHANGED <<migVars, userVars, follows, storage, apiSession>>
  /\ UNCHANGED authVars

UpdatePing(uid, ids, newOwner, content) ==
  /\ migrations > 0
  /\ LET ok == UpdateOk(uid, ids, newOwner, content)
         hit == UpdateTargets(uid, ids)
     IN /\ pings' = IF ok THEN (pings \ hit) \cup {Updated(r, newOwner, content) : r \in hit}
                    ELSE pings
        /\ lastOp' = Request("updatePing", uid, ok)
  /\ UNCHANGED <<migVars, nextId, userVars, follows, storage, apiSession>>
  /\ UNCHANGED authVars

DeletePing(uid, ids) ==
  /\ migrations > 0
  /\ pings' = pings \ DeleteTargets(uid, ids)
  /\ lastOp' = Request("deletePing", uid, TRUE)
  /\ UNCHANGED <<migVars, nextId, userVars, follows, storage, apiSession>>
  /\ UNCHANGED authVars

\* the SDK's session ends: sign out, or the session expires
ApiSignOut ==
  /\ apiSession # NullSession
  /\ apiSession' = NullSession
  /\ lastOp' = NoOp
  /\ UNCHANGED <<migVars, pingVars, userVars, follows, storage>>
  /\ UNCHANGED authVars

\* ------------------------------------------------------------- logger.ts
NoOpt == "undefined"
NoOptions == [userMessage |-> NoOpt, showToast |-> NoOpt, toastVariant |-> NoOpt]
UserMessage(m) == [NoOptions EXCEPT !.userMessage = m]
UserMessageToast(m) == [NoOptions EXCEPT !.userMessage = m, !.showToast = "true"]

\* logger.log: the toasts it shows
LoggerLog(level, message, details, options) ==
  LET showToast == IF options.showToast # NoOpt THEN options.showToast = "true"
                   ELSE level \in {"error", "warn"}
  IN IF showToast /\ options.userMessage # NoOpt
     THEN <<[title |-> IF level = "error" THEN "Error" ELSE "Notification",
             description |-> options.userMessage,
             variant |-> IF options.toastVariant # NoOpt THEN options.toastVariant
                         ELSE "default"]>>
     ELSE <<>>

LoggerError(message, details, options) ==
  LoggerLog("error", message, details, [options EXCEPT !.toastVariant = "destructive"])
LoggerWarn(message, details, options) ==
  LoggerLog("warn", message, details, [options EXCEPT !.toastVariant = "destructive"])

\* -------------------------------------------------------- ApiService
GetUserId == UserOf(apiSession)

Call(kind, target, arg, filter, ok) ==
  [kind |-> kind, target |-> target, arg |-> arg, filter |-> filter, ok |-> ok]

ProfileOf(uid) == {r \in profiles : r.id = uid}

\* what a service call leaves behind: [fail, calls, result, toasts] and the tables
Outcome(fail, cs, result, toasts) ==
  [fail |-> fail, calls |-> cs, result |-> result, toasts |-> toasts]

\* fetchOwnProfile; err: the select fails
FetchOwnProfile(err) ==
  LET userId == GetUserId
      rows == ProfileOf(userId)
      bad == err \/ Cardinality(rows) # 1
      sel == Call("select", "profiles", <<>>, userId, ~bad)
  IN IF userId = NullUser
     THEN Outcome("auth", <<>>, NoResult,
                  LoggerError("User not authenticated to fetch profile.",
                              UserMessage("Authentication required to fetch profile."),
                              NoOptions))
     ELSE IF bad
     THEN Outcome("select", <<sel>>, NoResult,
                  LoggerError("Error fetching profile:", "error",
                              UserMessageToast("Failed to load profile.")))
     ELSE Outcome("none", <<sel>>,
                  [kind |-> "profile", row |-> CHOOSE r \in rows : TRUE], <<>>)

AllowedKeys == {"username", "display_name", "bio", "location", "avatar_url"}
ExtraKeys == {"is_admin", "id"}

\* a mutant: the null test is dropped from the filter
FinalUpdatesKeepNull(updates) ==
  LET keep == {k \in AllowedKeys : updates[k] # Undefined}
  IN [k \in keep |-> updates[k]]

\* updateProfile's allowedUpdates with the null and undefined entries removed
FinalUpdates(updates) ==
  LET keep == {k \in AllowedKeys : updates[k] # Undefined /\ updates[k] # Null}
  IN [k \in keep |-> updates[k]]

ApplyPatch(row, patch) ==
  [f \in DOMAIN row |-> IF f \in DOMAIN patch THEN patch[f] ELSE row[f]]

\* updateProfile; err: the one backend call it makes (the update, or fetchOwnProfile's
\* select) fails. Gives the outcome and the profiles table after it.
UpdateProfile(updates, err) ==
  LET userId == GetUserId
      finalUpdates == FinalUpdates(updates)
      rows == ProfileOf(userId)
      bad == err \/ Cardinality(rows) # 1
      upd == Call("update", "profiles", finalUpdates, userId, ~bad)
      new == ApplyPatch(CHOOSE r \in rows : TRUE, finalUpdates)
  IN IF userId = NullUser
     THEN [out |-> Outcome("auth", <<>>, NoResult,
                     LoggerError("User not authenticated to update profile.",
                                 UserMessage("Authentication required to update profile."),
                                 NoOptions)),
           profiles |-> profiles]
     ELSE IF DOMAIN finalUpdates = {}
     THEN [out |-> [FetchOwnProfile(err) EXCEPT
                      !.toasts = LoggerWarn("No valid updates provided for profile.",
                                            Undefined, NoOptions) \o @],
           profiles |-> profiles]
     ELSE IF bad
     THEN [out |-> Outcome("update", <<upd>>, NoResult,
                     LoggerError("Error updating profile:", "error",
                                 UserMessageToast("Failed to update profile."))),
           profiles |-> profiles]
     ELSE [out |-> Outcome("none", <<upd>>, [kind |-> "profile", row |-> new], <<>>),
           profiles |-> (profiles \ rows) \cup {new}]

\* File inputs and Date.now()
FileNames == {"a.png"}
NoFile == "none"
Times == {"t1"}

\* `${dir}/${userId}/${Date.now()}_${file.name}`
FilePath(dir, userId, now, name) == <<dir, "/", userId, "/", now, "_", name>>
\* storage.from(bucket).getPublicUrl(path).data.publicUrl
PublicUrl(bucket, path) == <<"public/", bucket, "/">> \o path
Object(bucket, path) == [bucket |-> bucket, path |-> path]

AllKeys == AllowedKeys \cup ExtraKeys
NewValue == <<"new">>
Supplied(u) == {k \in AllKeys : u[k] # Undefined}
\* the forms an edit takes: the editable fields it may supply together
PatchShapes == {{"username", "bio"}, {"display_name", "location"}, {"avatar_url"}}
\* updates that supply the fields of one form, each as null or as a new value, with
\* or without is_admin and id beside them
PatchInputs ==
  {u \in [AllKeys -> {Undefined, Null, NewValue}] :
     /\ \A k \in ExtraKeys : u[k] # Null
     /\ \E s \in PatchShapes : Supplied(u) \cap AllowedKeys \subseteq s}
\* the patches that at most name the username
SmallPatches == {u \in PatchInputs : Supplied(u) \subseteq {"username"}}
OnlyAvatar(url) == [k \in AllKeys |-> IF k = "avatar_url" THEN url ELSE Undefined]

\* uploadAvatar; errUp: the upload fails, errU: the profile update fails
UploadAvatar(name, now, errUp, errU) ==
  LET userId == GetUserId
      filePath == FilePath("avatars", userId, now, name)
      up == Call("upload", "avatars", filePath, <<>>, ~errUp)
      publicUrl == PublicUrl("avatars", filePath)
      r == UpdateProfile(OnlyAvatar(publicUrl), errU)
  IN IF userId = NullUser
     THEN [out |-> Outcome("auth", <<>>, NoResult,
                     LoggerError("User not authenticated to upload avatar.",
                                 UserMessage("Authentication required to upload avatar."),
                                 NoOptions)),
           profiles |-> profiles, storage |-> storage]
     ELSE IF errUp
     THEN [out |-> Outcome("upload", <<up>>, NoResult,
                     LoggerError("Error uploading avatar:", "error",
                                 UserMessageToast("Failed to upload avatar."))),
           profiles |-> profiles, storage |-> storage]
     ELSE [out |-> [r.out EXCEPT !.calls = <<up>> \o @],
           profiles |-> r.profiles,
           storage |-> storage \cup {Object("avatars", filePath)}]

\* a mutant: the insert is issued although the upload failed
CreatePostIgnoringUpload(content, imageFile, now, errUp, errIns) ==
  LET userId == GetUserId
      filePath == FilePath("posts", userId, now, imageFile)
      up == Call("upload", "posts", filePath, <<>>, ~errUp)
      imageUrl == IF imageFile # NoFile THEN PublicUrl("posts", filePath) ELSE Null
      row == NewPing(nextId, userId, content, imageUrl)
      ok == ~errIns /\ InsertOk(userId, row)
      ins == Call("insert", "pings", row, <<>>, ok)
      cs == IF imageFile # NoFile THEN <<up, ins>> ELSE <<ins>>
  IN IF userId = NullUser
     THEN [out |-> Outcome("auth", <<>>, NoResult, <<>>), pings |-> pings, storage |-> storage]
     ELSE IF ~ok
     THEN [out |-> Outcome("insert", cs, NoResult,
                     LoggerError("Error inserting post:", "error",
                                 UserMessageToast("Failed to create post."))),
           pings |-> pings, storage |-> storage]
     ELSE [out |-> Outcome("none", cs, [kind |-> "ping", row |-> row], <<>>),
           pings |-> pings \cup {row},
           storage |-> IF imageFile # NoFile /\ ~errUp
                       THEN storage \cup {Object("posts", filePath)} ELSE storage]

\* createPost; imageFile: a file name or NoFile; errUp, errIns: upload, insert fail
CreatePost(content, imageFile, now, errUp, errIns) ==
  LET userId == GetUserId
      filePath == FilePath("posts", userId, now, imageFile)
      up == Call("upload", "posts", filePath, <<>>, ~errUp)
      imageUrl == IF imageFile # NoFile THEN PublicUrl("posts", filePath) ELSE Null
      row == NewPing(nextId, userId, content, imageUrl)
      ok == ~errIns /\ InsertOk(userId, row)
      ins == Call("insert", "pings", row, <<>>, ok)
      cs == IF imageFile # NoFile THEN <<up, ins>> ELSE <<ins>>
      stored == IF imageFile # NoFile THEN storage \cup {Object("posts", filePath)}
                ELSE storage
  IN IF userId = NullUser
     THEN [out |-> Outcome("auth", <<>>, NoResult,
                     LoggerError("User not authenticated to create post.",
                                 UserMessage("Authentication required to create post."),
                                 NoOptions)),
           pings |-> pings, storage |-> storage]
     ELSE IF imageFile # NoFile /\ errUp
     THEN [out |-> Outcome("upload", <<up>>, NoResult,
                     LoggerError("Error uploading post image:", "error",
                                 UserMessageToast("Failed to upload post image."))),
           pings |-> pings, storage |-> storage]
     ELSE IF ~ok
     THEN [out |-> Outcome("insert", cs, NoResult,
                     LoggerError("Error inserting post:", "error",
                                 UserMessageToast("Failed to create post."))),
           pings |-> pings, storage |-> stored]
     ELSE [out |-> Outcome("none", cs, [kind |-> "ping", row |-> row], <<>>),
           pings |-> pings \cup {row}, storage |-> stored]

\* pings ordered by created_at descending (ids grow with time)
RECURSIVE NewestFirst(_)
NewestFirst(S) ==
  IF S = {} THEN <<>>
  ELSE LET top == CHOOSE r \in S : \A q \in S : q.id <= r.id
       IN <<top>> \o NewestFirst(S \ {top})
\* .range(from, to), both inclusive, counted from 0
Range(s, from, to) ==
  SubSeq(s, from + 1, IF to + 1 < Len(s) THEN to + 1 ELSE Len(s))

\* getPosts; err: "none", "error" (the select answers an error) or "throw"
GetPosts(limit, offset, err) ==
  LET sel == Call("select", "pings", <<>>, <<offset, offset + limit - 1>>, err = "none")
  IN IF err = "error"
     THEN Outcome("select", <<sel>>, NoResult,
                  LoggerError("Error fetching posts:", "error",
                              UserMessageToast("Failed to load posts.")))
     ELSE IF err = "throw"
     THEN Outcome("throw", <<sel>>, NoResult,
                  LoggerError("Exception fetching posts:", "error",
                              UserMessageToast("Failed to load posts.")))
     ELSE Outcome("none", <<sel>>,
                  [kind |-> "pings",
                   rows |-> Range(NewestFirst(pings), offset, offset + limit - 1)], <<>>)

\* the record of a service call
Ran(op, input, out) ==
  [op |-> op, uid |-> GetUserId, input |-> input, fail |-> out.fail, calls |-> out.calls,
   result |-> out.result, toasts |-> out.toasts]

DoFetchOwnProfile(err) ==
  /\ lastOp' = Ran("fetchOwnProfile", <<>>, FetchOwnProfile(err))
  /\ UNCHANGED <<migVars, pingVars, userVars, follows, storage, apiSession>>
  /\ UNCHANGED authVars

DoUpdateProfile(updates, err) ==
  /\ LET r == UpdateProfile(updates, err)
     IN /\ lastOp' = Ran("updateProfile", updates, r.out)
        /\ profiles' = r.profiles
  /\ UNCHANGED <<migVars, pingVars, authUsers, follows, storage, apiSession>>
  /\ UNCHANGED authVars

DoUploadAvatar(name, now, errUp, errU) ==
  /\ LET r == UploadAvatar(name, now, errUp, errU)
     IN /\ lastOp' = Ran("uploadAvatar", <<name, now>>, r.out)
        /\ profiles' = r.profiles
        /\ storage' = r.storage
  /\ UNCHANGED <<migVars, pingVars, authUsers, follows, apiSession>>
  /\ UNCHANGED authVars

DoCreatePost(content, imageFile, now, errUp, errIns) ==
  /\ nextId <= MaxPings
  /\ LET r == CreatePost(content, imageFile, now, errUp, errIns)
     IN /\ lastOp' = Ran("createPost", <<content, imageFile, now>>, r.out)
        /\ pings' = r.pings
        /\ nextId' = IF r.pings # pings THEN nextId + 1 ELSE nextId
        /\ storage' = r.storage
  /\ UNCHANGED <<migVars, userVars, follows, apiSession>>
  /\ UNCHANGED authVars

DoGetPosts(limit, offset, err) ==
  /\ lastOp' = Ran("getPosts", <<limit, offset>>, GetPosts(limit, offset, err))
  /\ UNCHANGED <<migVars, pingVars, userVars, follows, storage, apiSession>>
  /\ UNCHANGED authVars

\* a profile as handle_new_user leaves it for a user who signed up as `name`
FreshProfile(uid, name) ==
  [id |-> uid, username |-> name, display_name |-> name, bio |-> Null, location |-> Null,
   avatar_url |-> Null, is_admin |-> <<"false">>]

Migrated ==
  /\ pgPolicies = PingsPolicyNames /\ triggers = 1 /\ fnDefined = TRUE /\ migrations = 1

InitApi ==
  /\ AuthIdle
  /\ Migrated
  /\ pings = {} /\ nextId = 1
  /\ authUsers = {}
  /\ profiles = {FreshProfile(u, <<u>>) : u \in Users}
  /\ follows = {} /\ storage = {}
  /\ apiSession \in AuthStates
  /\ lastOp = NoOp

NextApi ==
  \/ ApiSignOut
  \/ \E err \in BOOLEAN : DoFetchOwnProfile(err)
  \/ \E u \in SmallPatches, err \in BOOLEAN : DoUpdateProfile(u, err)
  \/ \E n \in FileNames, now \in Times, errUp, errU \in BOOLEAN : DoUploadAvatar(n, now, errUp, errU)
  \/ \E f \in FileNames \cup {NoFile}, now \in Times, errUp, errIns \in BOOLEAN :
        DoCreatePost("c1", f, now, errUp, errIns)
  \/ \E limit \in 1..2, offset \in 0..1, err \in {"none", "error", "throw"} :
        DoGetPosts(limit, offset, err)

SpecApi == InitApi /\ [][NextApi]_vars

\* the profile calls alone, for every patch
NextProfile ==
  \/ ApiSignOut
  \/ \E err \in BOOLEAN : DoFetchOwnProfile(err)
  \/ \E u \in PatchInputs, err \in BOOLEAN : DoUpdateProfile(u, err)

SpecProfile == InitApi /\ [][NextProfile]_vars

\* the database before the migration runs: some of its policies may exist already
InitPings ==
  /\ AuthIdle
  /\ pgPolicies \in SUBSET PingsPolicyNames
  /\ triggers \in 0..1
  /\ fnDefined \in BOOLEAN
  /\ migrations = 0
  /\ pings = {} /\ nextId = 1
  /\ authUsers = {}
  /\ profiles = {FreshProfile(u, <<u>>) : u \in Users}
  /\ follows = {} /\ storage = {}
  /\ apiSession \in AuthStates
  /\ lastOp = NoOp

Callers == Users \cup {NullUser}
\* the WHERE clauses of the requests: one id, or every row
IdFilters == {{i} : i \in PingIds} \cup {PingIds}

NextPings ==
  \/ ApplyMigration
  \/ ApiSignOut
  \/ \E uid \in Callers, owner \in Callers, c \in Contents : InsertPing(uid, owner, c)
  \/ \E uid \in Callers, ids \in IdFilters, owner \in Callers, c \in Contents :
        UpdatePing(uid, ids, owner, c)
  \/ \E uid \in Callers, ids \in IdFilters : DeletePing(uid, ids)
  \/ \E c \in Contents, now \in Times, errIns \in BOOLEAN :
        /\ migrations > 0
        /\ DoCreatePost(c, NoFile, now, FALSE, errIns)

SpecPings == InitPings /\ [][NextPings]_vars

\* ------------------------------------------------ public.follows and its helpers
\* profiles that can be followed: the two users and one who never signs in here
FollowTargets == Users \cup {"u3"}
FollowRow(follower, followed) == [follower_id |-> follower, followed_id |-> followed]

\* the policies on public.follows: the two write policies the helpers' comments
\* rely on, and one of two read policies
FollowsWritePolicies == {"follows insert own", "follows delete own"}
FollowsSelectPolicies == {"follows select all", "follows select own"}
FollowsPolicyCmd(name) ==
  CASE name = "follows insert own" -> "INSERT"
    [] name = "follows delete own" -> "DELETE"
    [] name \in FollowsSelectPolicies -> "SELECT"
FollowsPolicyExpr(name, uid, row) ==
  CASE name = "follows insert own" -> SqlEq(uid, row.follower_id)
    [] name = "follows delete own" -> SqlEq(uid, row.follower_id)
    [] name = "follows select all" -> TRUE
    [] name = "follows select own" -> SqlEq(uid, row.follower_id)
FollowsAllowed(cmd, uid, row) ==
  \E p \in pgPolicies \cap (FollowsWritePolicies \cup FollowsSelectPolicies) :
     FollowsPolicyCmd(p) = cmd /\ FollowsPolicyExpr(p, uid, row)
\* follower_id DEFAULT auth.uid()
FollowerDefault(uid) == uid
\* UNIQUE (follower_id, followed_id)
FollowsUnique(row) == row \notin follows

Thrown == [kind |-> "throw"]
Returned(v) == [kind |-> "value", value |-> v]

\* followUser; err: the request fails on its way
FollowUser(target, err) ==
  LET uid == GetUserId
      row == FollowRow(FollowerDefault(uid), target)
      ok == ~err /\ FollowsAllowed("INSERT", uid, row) /\ FollowsUnique(row)
      ins == Call("insert", "follows", [followed_id |-> target], <<>>, ok)
  IN [out |-> IF ok THEN Outcome("none", <<ins>>, Returned(Undefined), <<>>)
              ELSE Outcome("error", <<ins>>, Thrown,
                           LoggerError("Failed to follow user:", "error",
                                       UserMessage("Could not follow user. Please try again."))),
      follows |-> IF ok THEN follows \cup {row} ELSE follows]

\* a mutant: the delete has no followed_id filter
UnfollowTargetsAnyFollowed(uid, target) ==
  {r \in follows : FollowsAllowed("SELECT", uid, r) /\ FollowsAllowed("DELETE", uid, r)}

\* the rows DELETE ... WHERE followed_id = target removes for auth.uid() = uid
UnfollowTargets(uid, target) ==
  {r \in follows : /\ r.followed_id = target
                   /\ FollowsAllowed("SELECT", uid, r) /\ FollowsAllowed("DELETE", uid, r)}

\* unfollowUser; err: the request fails on its way
UnfollowUser(target, err) ==
  LET uid == GetUserId
      del == Call("delete", "follows", <<>>, target, ~err)
  IN [out |-> IF ~err THEN Outcome("none", <<del>>, Returned(Undefined), <<>>)
              ELSE Outcome("error", <<del>>, Thrown,
                           LoggerError("Failed to unfollow user:", "error",
                                       UserMessage("Could not unfollow user. Please try again."))),
      follows |-> IF ~err THEN follows \ UnfollowTargets(uid, target) ELSE follows]

\* isFollowing; err: the request fails with an error other than PGRST116
IsFollowing(target, err) ==
  LET uid == GetUserId
      rows == {r \in follows : r.followed_id = target /\ FollowsAllowed("SELECT", uid, r)}
      \* .single(): the row when there is exactly one, else error PGRST116 and no data
      code == IF err THEN "other" ELSE IF Cardinality(rows) = 1 THEN "none" ELSE "PGRST116"
      data == code = "none"
      sel == Call("select", "follows", <<"id">>, target, code = "none")
  IN IF code \notin {"none", "PGRST116"}
     THEN Outcome("error", <<sel>>, Thrown,
                  LoggerError("Error checking follow status:", "error",
                              UserMessage("Failed to check follow status.")))
     ELSE Outcome("none", <<sel>>, Returned(data), <<>>)

DoFollowUser(target, err) ==
  /\ LET r == FollowUser(target, err)
     IN /\ lastOp' = Ran("followUser", target, r.out)
        /\ follows' = r.follows
  /\ UNCHANGED <<migVars, pingVars, userVars, storage, apiSession>>
  /\ UNCHANGED authVars

DoUnfollowUser(target, err) ==
  /\ LET r == UnfollowUser(target, err)
     IN /\ lastOp' = Ran("unfollowUser", target, r.out)
        /\ follows' = r.follows
  /\ UNCHANGED <<migVars, pingVars, userVars, storage, apiSession>>
  /\ UNCHANGED authVars

DoIsFollowing(target, err) ==
  /\ lastOp' = Ran("isFollowing", target, IsFollowing(target, err))
  /\ UNCHANGED <<migVars, pingVars, userVars, follows, storage, apiSession>>
  /\ UNCHANGED authVars

\* signIn with the password of u: the SDK holds u's session afterwards
ApiSignIn(u) ==
  /\ apiSession = NullSession
  /\ apiSession' = [user |-> u]
  /\ lastOp' = NoOp
  /\ UNCHANGED <<migVars, pingVars, userVars, follows, storage>>
  /\ UNCHANGED authVars

InitFollows ==
  /\ AuthIdle
  /\ \E sel \in FollowsSelectPolicies :
        pgPolicies = PingsPolicyNames \cup FollowsWritePolicies \cup {sel}
  /\ triggers = 1 /\ fnDefined = TRUE /\ migrations = 1
  /\ pings = {} /\ nextId = 1
  /\ authUsers = {}
  /\ profiles = {FreshProfile(u, <<u>>) : u \in FollowTargets}
  /\ follows = {} /\ storage = {}
  /\ apiSession \in AuthStates
  /\ lastOp = NoOp

NextFollows ==
  \/ ApiSignOut
  \/ \E u \in Users : ApiSignIn(u)
  \/ \E t \in FollowTargets, err \in BOOLEAN : DoFollowUser(t, err)
  \/ \E t \in FollowTargets, err \in BOOLEAN : DoUnfollowUser(t, err)
  \/ \E t \in FollowTargets, err \in BOOLEAN : DoIsFollowing(t, err)

SpecFollows == InitFollows /\ [][NextFollows]_vars

\* ------------------------------------------- handle_new_user and signUp
\* text values are sequences of characters
Emails == {<<"a", "@", "x">>, <<"b", "c", "@", "x">>, <<"d", "@", "e", "@", "x">>}
UserNames == {<<>>, <<"z">>}
DisplayNames == {<<"y">>}
MetaData == [username : UserNames \cup {Null}, display_name : DisplayNames \cup UserNames \cup {Null},
             avatar_url : {Null}]

\* the fields of s between the delimiters d
RECURSIVE Fields(_, _, _)
Fields(s, d, cur) ==
  IF s = <<>> THEN <<cur>>
  ELSE IF Head(s) = d THEN <<cur>> \o Fields(Tail(s), d, <<>>)
  ELSE Fields(Tail(s), d, Append(cur, Head(s)))
\* SQL split_part(s, d, n)
SplitPart(s, d, n) ==
  LET fs == Fields(s, d, <<>>) IN IF n <= Len(fs) THEN fs[n] ELSE <<>>
\* SQL COALESCE: the first value that is not NULL
RECURSIVE Coalesce(_)
Coalesce(vs) ==
  IF vs = <<>> THEN Null ELSE IF Head(vs) # Null THEN Head(vs) ELSE Coalesce(Tail(vs))

\* a mutant: display_name falls back to the email only
HandleNewUserNoUsernameFallback(new) ==
  [id |-> new.id,
   username |-> Coalesce(<<new.meta.username, SplitPart(new.email, "@", 1)>>),
   display_name |-> Coalesce(<<new.meta.display_name, SplitPart(new.email, "@", 1)>>),
   avatar_url |-> new.meta.avatar_url,
   bio |-> Null, location |-> Null, is_admin |-> <<"false">>]

\* the profiles row handle_new_user inserts for the auth.users row `new`
HandleNewUser(new) ==
  [id |-> new.id,
   username |-> Coalesce(<<new.meta.username, SplitPart(new.email, "@", 1)>>),
   display_name |-> Coalesce(<<new.meta.display_name, new.meta.username,
                               SplitPart(new.email, "@", 1)>>),
   avatar_url |-> new.meta.avatar_url,
   bio |-> Null, location |-> Null, is_admin |-> <<"false">>]

\* INSERT INTO auth.users with its AFTER INSERT triggers, in one transaction:
\* the tables after it, or the tables unchanged when a trigger raises
AuthUsersInsert(new) ==
  LET fires == IF fnDefined THEN triggers ELSE 0
      clash == fires > 1 \/ (fires = 1 /\ \E q \in profiles : q.id = new.id)
      ok == (triggers > 0 => fnDefined) /\ ~clash
  IN [ok |-> ok,
      authUsers |-> IF ok THEN authUsers \cup {new} ELSE authUsers,
      profiles |-> IF ok /\ fires = 1 THEN profiles \cup {HandleNewUser(new)} ELSE profiles]

\* a row is inserted into auth.users (sign-up, OAuth, the dashboard)
InsertAuthUser(id, email, meta) ==
  /\ migrations > 0
  /\ \A u \in authUsers : u.id # id
  /\ LET r == AuthUsersInsert([id |-> id, email |-> email, meta |-> meta])
     IN /\ authUsers' = r.authUsers
        /\ profiles' = r.profiles
        /\ lastOp' = Request("insertAuthUser", id, r.ok)
  /\ UNCHANGED <<migVars, pingVars, follows, storage, apiSession>>
  /\ UNCHANGED authVars

\* AuthProvider.signUp; err: supabase.auth.signUp answers an error
SignUp(id, email, username, err) ==
  /\ migrations > 0
  /\ \A u \in authUsers : u.id # id
  /\ LET data == [username |-> username, display_name |-> username, avatar_url |-> Null]
         r == AuthUsersInsert([id |-> id, email |-> email, meta |-> data])
         bad == err \/ ~r.ok
     IN /\ authUsers' = IF bad THEN authUsers ELSE r.authUsers
        /\ profiles' = IF bad THEN profiles ELSE r.profiles
        /\ lastOp' = [NoOp EXCEPT !.op = "signUp", !.uid = id, !.input = <<email, username>>,
                        !.fail = IF bad THEN "signUp" ELSE "none",
                        !.toasts = IF bad
                                   THEN LoggerError("Sign up error", "error",
                                                    UserMessageToast("error.message"))
                                   ELSE <<>>]
  /\ UNCHANGED <<migVars, pingVars, follows, storage, apiSession>>
  /\ UNCHANGED authVars

InitUsers ==
  /\ AuthIdle
  /\ pgPolicies \in SUBSET PingsPolicyNames
  /\ triggers \in 0..1
  /\ fnDefined \in BOOLEAN
  /\ migrations = 0
  /\ pings = {} /\ nextId = 1
  /\ authUsers = {} /\ profiles = {}
  /\ follows = {} /\ storage = {}
  /\ apiSession = NullSession
  /\ lastOp = NoOp

NextUsers ==
  \/ ApplyMigration
  \/ \E id \in Users, e \in Emails, m \in MetaData : InsertAuthUser(id, e, m)
  \/ \E id \in Users, e \in Emails, n \in UserNames, err \in BOOLEAN : SignUp(id, e, n, err)

SpecUsers == InitUsers /\ [][NextUsers]_vars

\* ------------------------------------------------------ claims on the auth flow

\* C1: while AuthProvider is mounted, every protected route renders its page exactly
\* when loading is false and user is non-null, the skeleton whenever loading is true,
\* and the redirect to /auth when loading is false and user is null.
C1_GuardedRender ==
  life = "mounted" =>
    \A r \in ProtectedRoutes :
      /\ (view[r] = PageOf(r)) <=> (~loading /\ user # NullUser)
      /\ loading => view[r] = "AppSkeleton"
      /\ (~loading /\ user = NullUser) => view[r] = "Navigate:/auth"

\* a protected page is on screen after the bootstrap and a later auth event
C1_Witness ==
  /\ life = "mounted" /\ initPc = "done" /\ timer = "fired"
  /\ user = "u2" /\ backendSession = [user |-> "u2"]
  /\ view["/settings"] = "Settings"

\* C2: in every execution in which AuthProvider stays mounted, loading eventually
\* becomes false, also when getSession or the profile fetch never settles.
C2_LoadingEnds == <>(loading = FALSE \/ life = "unmounted")

\* the part of C2 the code does give: it holds whenever getSession settles
C2_LoadingEndsIfSessionSettles == <>(loading = FALSE \/ life = "unmounted" \/ initPc = "hung")

\* every call has settled and every emitted event has been handled
Quiescent ==
  /\ life = "mounted" /\ initPc = "done"
  /\ events = <<>> /\ NoHandlers(handlers) /\ ~stuck

\* C3: once every pending handler has completed, session is the backend's most recent
\* auth state and user is that session's user; the getSession result never overwrites
\* a newer event.
C3_Mirror == Quiescent => (session = backendSession /\ user = UserOf(backendSession))

\* ------------------------------------------------ claims on the pings policies

\* C4: a step that adds, changes or removes rows of pings is made by an authenticated
\* caller and touches only rows whose user_id is the caller's uid, before and after;
\* and the row createPost inserts is owned by the session's user.
C4_OwnRowsOnly ==
  [][ /\ pings' # pings =>
           /\ lastOp'.uid \in Users
           /\ \A r \in (pings' \ pings) \cup (pings \ pings') : r.user_id = lastOp'.uid
      /\ (lastOp'.op = "createPost" /\ pings' # pings) =>
           /\ lastOp'.uid = UserOf(apiSession)
           /\ \A c \in {lastOp'.calls[i] : i \in 1..Len(lastOp'.calls)} :
                c.kind = "insert" => c.arg.user_id = UserOf(apiSession)
    ]_vars

\* both users own a ping, and one of them has just updated their own
C4_Witness ==
  /\ lastOp.op = "updatePing" /\ lastOp.fail = "none" /\ lastOp.uid = "u1"
  /\ \E r \in pings : r.user_id = "u1" /\ r.content = "c2"
  /\ \E r \in pings : r.user_id = "u2" /\ r.content = "c1"

\* ------------------------------------------------ claims on the sign-up trigger

\* the part of an email before its first @
LocalPart(e) ==
  LET ats == {i \in 1..Len(e) : e[i] = "@"}
      first == IF ats = {} THEN Len(e) + 1 ELSE CHOOSE i \in ats : \A j \in ats : i <= j
  IN SubSeq(e, 1, first - 1)

\* C5: every auth.users row has exactly one profiles row with its id, whose username
\* is the metadata username, else the email's local part, and whose display_name is
\* the metadata display_name, else the metadata username, else the local part; after
\* a successful signUp the new profile has username = display_name = the given name.
C5_ProfilePerUser ==
  /\ \A u \in authUsers :
       LET ps == {q \in profiles : q.id = u.id}
       IN /\ Cardinality(ps) = 1
          /\ \A q \in ps :
               /\ q.username = IF u.meta.username # Null THEN u.meta.username
                               ELSE LocalPart(u.email)
               /\ q.display_name = IF u.meta.display_name # Null THEN u.meta.display_name
                                   ELSE IF u.meta.username # Null THEN u.meta.username
                                   ELSE LocalPart(u.email)
  /\ (lastOp.op = "signUp" /\ lastOp.fail = "none") =>
       /\ \E u \in authUsers : u.id = lastOp.uid
       /\ \A q \in profiles : q.id = lastOp.uid =>
            q.username = lastOp.input[2] /\ q.display_name = lastOp.input[2]

\* one user came in with no metadata and a two-@ email, the other signed up as "z"
C5_Witness ==
  /\ lastOp.op = "signUp" /\ lastOp.fail = "none" /\ lastOp.input[2] = <<"z">>
  /\ \E q \in profiles : q.id = lastOp.uid /\ q.display_name = <<"z">>
  /\ \E u \in authUsers :
       /\ u.meta.username = Null /\ u.meta.display_name = Null
       /\ u.email = <<"d", "@", "e", "@", "x">>
       /\ \E q \in profiles : q.id = u.id /\ q.username = <<"d">>
\* ------------------------------------------------ claims on the follow helpers

\* C6: isFollowing(target) answers true exactly when follows holds the row
\* (current user, target), whatever else the table holds, and throws only on a
\* backend error other than "no rows found".
C6_IsFollowingExact ==
  lastOp.op = "isFollowing" =>
    /\ lastOp.fail = "none" =>
         lastOp.result = Returned(FollowRow(lastOp.uid, lastOp.input) \in follows)
    /\ lastOp.result = Thrown <=> lastOp.fail = "error"

\* C7: unfollowUser(target) removes the row (current user, target) and nothing else;
\* followUser(target) adds the row (current user, target) and nothing else; on a
\* backend error each throws and follows is unchanged.
C7_FollowFrame ==
  [][ /\ lastOp'.op = "unfollowUser" =>
           /\ follows' \subseteq follows
           /\ follows \ follows' \subseteq {FollowRow(lastOp'.uid, lastOp'.input)}
           /\ lastOp'.fail = "none" => FollowRow(lastOp'.uid, lastOp'.input) \notin follows'
           /\ lastOp'.fail # "none" => (lastOp'.result = Thrown /\ follows' = follows)
      /\ lastOp'.op = "followUser" =>
           /\ follows \subseteq follows'
           /\ follows' \ follows \subseteq {FollowRow(lastOp'.uid, lastOp'.input)}
           /\ follows' # follows => lastOp'.uid \in Users
           /\ lastOp'.fail = "none" => FollowRow(lastOp'.uid, lastOp'.input) \in follows'
           /\ lastOp'.fail # "none" => (lastOp'.result = Thrown /\ follows' = follows)
      /\ lastOp'.op \notin {"unfollowUser", "followUser"} => follows' = follows ]_vars

\* u1 has unfollowed u3 while u1 still follows u2 and u2 still follows u3
C7_Witness ==
  /\ lastOp.op = "unfollowUser" /\ lastOp.fail = "none"
  /\ lastOp.uid = "u1" /\ lastOp.input = "u3"
  /\ follows = {FollowRow("u1", "u2"), FollowRow("u2", "u3")}
\* ------------------------------------------------ claims on ApiService

\* the current session user's profile row, as a result
CurrentProfile == [kind |-> "profile", row |-> CHOOSE r \in ProfileOf(lastOp.uid) : TRUE]

\* what updateProfile may send, for the updates it was given
C8_SendsOnlyAllowed ==
  lastOp.op = "updateProfile" =>
    \A i \in 1..Len(lastOp.calls) :
       LET c == lastOp.calls[i]
       IN c.kind = "update" =>
            /\ c.target = "profiles"
            /\ lastOp.uid \in Users /\ c.filter = lastOp.uid
            /\ DOMAIN c.arg \subseteq AllowedKeys
            /\ DOMAIN c.arg # {}
            /\ \A k \in DOMAIN c.arg :
                 c.arg[k] = lastOp.input[k] /\ c.arg[k] \notin {Null, Undefined}
            /\ \A k \in AllowedKeys :
                 lastOp.input[k] \notin {Null, Undefined} => k \in DOMAIN c.arg

\* no field of the updates survives the filter
NothingToUpdate ==
  \A k \in AllowedKeys : lastOp.input[k] \in {Null, Undefined}

\* C8 as stated: updateProfile sends only allowed fields with a value that is neither
\* null nor undefined, only to the session user's row, never is_admin, id or another
\* key; when no field remains it issues no update and returns the current profile.
C8_AsStated ==
  /\ C8_SendsOnlyAllowed
  /\ (lastOp.op = "updateProfile" /\ lastOp.uid \in Users /\ NothingToUpdate) =>
       /\ \A i \in 1..Len(lastOp.calls) : lastOp.calls[i].kind # "update"
       /\ lastOp.result = CurrentProfile

\* C8, amended: as stated, except that when no field remains updateProfile returns
\* what fetchOwnProfile returns: the current profile, or null when that fetch fails.
C8_AllowedFieldsOnly ==
  /\ C8_SendsOnlyAllowed
  /\ (lastOp.op = "updateProfile" /\ lastOp.uid \in Users /\ NothingToUpdate) =>
       /\ \A i \in 1..Len(lastOp.calls) : lastOp.calls[i].kind # "update"
       /\ lastOp.fail = "none" => lastOp.result = CurrentProfile
       /\ lastOp.fail # "none" => (lastOp.fail = "select" /\ lastOp.result = NoResult)

\* u1 sent a username together with is_admin and id, and only the username was written
C8_Witness ==
  /\ lastOp.op = "updateProfile" /\ lastOp.fail = "none" /\ lastOp.uid = "u1"
  /\ lastOp.input["username"] = NewValue
  /\ lastOp.input["is_admin"] = NewValue /\ lastOp.input["id"] = NewValue
  /\ \E i \in 1..Len(lastOp.calls) :
        lastOp.calls[i].kind = "update" /\ DOMAIN lastOp.calls[i].arg = {"username"}
  /\ \E r \in profiles : r.id = "u1" /\ r.username = NewValue /\ r.is_admin = <<"false">>
\* the calls of the operation just run, by kind
CallsOf(kind) == {i \in 1..Len(lastOp'.calls) : lastOp'.calls[i].kind = kind}

\* a write call of the operation just run comes after a successful upload of the
\* file to `bucket`, and carries that file's public URL
AfterUpload(i, bucket, url) ==
  \E j \in CallsOf("upload") :
     /\ j < i
     /\ lastOp'.calls[j].ok /\ lastOp'.calls[j].target = bucket
     /\ url = PublicUrl(bucket, lastOp'.calls[j].arg)
     /\ Object(bucket, lastOp'.calls[j].arg) \in storage'
UploadFailed == \E j \in CallsOf("upload") : ~lastOp'.calls[j].ok

\* C9: createPost with an image inserts into pings only after the upload succeeded,
\* with image_url = the uploaded file's public URL; when the upload fails no row is
\* inserted and the result is null. uploadAvatar updates avatar_url only after a
\* successful upload, and leaves the profile unchanged when the upload fails.
C9_UploadFirst ==
  [][ /\ (lastOp'.op = "createPost" /\ lastOp'.input[2] # NoFile) =>
           /\ \A i \in CallsOf("insert") :
                AfterUpload(i, "posts", lastOp'.calls[i].arg.image_url)
           /\ \A r \in pings' \ pings :
                \E i \in CallsOf("insert") : lastOp'.calls[i].arg = r
           /\ (lastOp'.uid \in Users /\ lastOp'.fail = "none") => pings' # pings
           /\ UploadFailed =>
                (CallsOf("insert") = {} /\ pings' = pings /\ lastOp'.result = NoResult)
      /\ lastOp'.op = "uploadAvatar" =>
           /\ \A i \in CallsOf("update") :
                /\ DOMAIN lastOp'.calls[i].arg = {"avatar_url"}
                /\ AfterUpload(i, "avatars", lastOp'.calls[i].arg.avatar_url)
           /\ profiles' # profiles => CallsOf("update") # {}
           /\ \A q \in profiles' \ profiles :
                \E i \in CallsOf("update") : q.avatar_url = lastOp'.calls[i].arg.avatar_url
           /\ (lastOp'.uid \in Users /\ lastOp'.fail = "none") =>
                \E q \in profiles', i \in CallsOf("update") :
                   q.id = lastOp'.uid /\ q.avatar_url = lastOp'.calls[i].arg.avatar_url
           /\ UploadFailed =>
                (CallsOf("update") = {} /\ profiles' = profiles /\ lastOp'.result = NoResult)
    ]_vars

\* a post with an image exists, and the last post failed at its upload
C9_Witness ==
  /\ lastOp.op = "createPost" /\ lastOp.fail = "upload" /\ lastOp.input[2] = "a.png"
  /\ \E r \in pings :
        /\ r.image_url = PublicUrl("posts", FilePath("posts", r.user_id, "t1", "a.png"))
        /\ Object("posts", FilePath("posts", r.user_id, "t1", "a.png")) \in storage
  /\ \E q \in profiles :
        q.avatar_url = PublicUrl("avatars", FilePath("avatars", q.id, "t1", "a.png"))

\* the user-facing message the source gives for each failure path
PathMessage(op, fail) ==
  CASE fail = "auth" /\ op = "fetchOwnProfile" -> "Authentication required to fetch profile."
    [] fail = "auth" /\ op = "updateProfile" -> "Authentication required to update profile."
    [] fail = "auth" /\ op = "uploadAvatar" -> "Authentication required to upload avatar."
    [] fail = "auth" /\ op = "createPost" -> "Authentication required to create post."
    [] fail = "select" /\ op = "getPosts" -> "Failed to load posts."
    [] fail = "throw" -> "Failed to load posts."
    [] fail = "select" /\ op # "getPosts" -> "Failed to load profile."
    [] fail = "update" -> "Failed to update profile."
    [] fail = "upload" /\ op = "uploadAvatar" -> "Failed to upload avatar."
    [] fail = "upload" /\ op = "createPost" -> "Failed to upload post image."
    [] fail = "insert" -> "Failed to create post."
ApiOps == {"fetchOwnProfile", "updateProfile", "uploadAvatar", "createPost", "getPosts"}
Toasted(m) == \E i \in 1..Len(lastOp.toasts) : lastOp.toasts[i].description = m

\* C10: every failure path of an ApiService operation resolves to null and shows the
\* path's user-facing message as a toast, the path without a session included.
C10_FailureToasts ==
  (lastOp.op \in ApiOps /\ lastOp.fail # "none") =>
    /\ lastOp.result = NoResult
    /\ Toasted(PathMessage(lastOp.op, lastOp.fail))

\* the same for the paths taken with a session: these hold
C10_BackendFailureToasts ==
  (lastOp.op \in ApiOps /\ lastOp.fail \notin {"none", "auth"}) =>
    /\ lastOp.result = NoResult
    /\ Toasted(PathMessage(lastOp.op, lastOp.fail))
\* ------------------------------------------------ claims on the migration

\* C11: once the migration has been applied, applying it again succeeds and leaves
\* the same pings policies, the same handle_new_user function and exactly one
\* on_auth_user_created trigger, whatever the database held before the first run.
C11_Idempotent ==
  [][ (lastOp'.op = "migrate" /\ migrations >= 1) =>
        /\ lastOp'.fail = "none"
        /\ migrations' = migrations + 1
        /\ pgPolicies' = pgPolicies
        /\ fnDefined' = fnDefined /\ fnDefined'
        /\ triggers' = triggers /\ triggers' = 1 ]_vars

\* the migration has run a second time, and succeeded
C11_Witness ==
  /\ lastOp.op = "migrate" /\ lastOp.fail = "none" /\ migrations = 2
  /\ pgPolicies = PingsPolicyNames /\ fnDefined /\ triggers = 1
\* ------------------------------------------------ claims on the subscription

\* the positions of a call in the provider's calls to the SDK
CallsAt(name) == {i \in 1..Len(calls) : calls[i] = name}

\* C12: AuthProvider subscribes before it calls getSession, holds exactly one
\* subscription while mounted and none after unmount; every auth state change that
\* happens while it is mounted is emitted to that subscription, and every emitted
\* change is handled by handleAuthStateChange, which sets session and user to it.
C12_SubscribedWhileMounted ==
  /\ [](/\ subs = IF life = "mounted" THEN 1 ELSE 0
        /\ life # "new" =>
             /\ Cardinality(CallsAt("onAuthStateChange")) = 1
             /\ Cardinality(CallsAt("getSession")) = 1
             /\ \A i \in CallsAt("onAuthStateChange"), j \in CallsAt("getSession") : i < j)
  /\ [][ /\ (life = "mounted" /\ life' = "mounted" /\ backendSession' # backendSession) =>
              events' = Append(events, backendSession')
         /\ (life = "mounted" /\ life' = "mounted" /\ events # <<>> /\ events' = Tail(events)) =>
              (session' = Head(events) /\ user' = UserOf(Head(events)))
         /\ (life = "mounted" /\ life' = "mounted" /\ events # <<>>) =>
              (events' = events \/ events' = Tail(events)
                 \/ \E s \in AuthStates : events' = Append(events, s)) ]_vars

\* no session at start-up, then a sign-in of u2 reached the provider as an event
C12_Witness ==
  /\ life = "mounted" /\ subs = 1
  /\ initPc = "done" /\ initRead = NullSession
  /\ session = [user |-> "u2"] /\ user = "u2" /\ events = <<>>
\* ------------------------------------------------ claims on start-up

\* getSession has answered with a session: one existed at start-up
SessionAtStartup == initPc \in {"resolved", "awaitHandler", "done"} /\ initRead # NullSession
\* the provider's loading flag goes from true to false in this step
LoadingEnds == life' = "mounted" /\ loading /\ ~loading'
\* user is the start-up session's user, and that user's admin fetch has completed
\* and its result is what isAdmin holds
StartupSettled ==
  /\ user' = UserOf(initRead)
  /\ initPc' = "done"
  /\ \E err \in BOOLEAN : isAdmin' = FetchUserProfile(UserOf(initRead), err)
  /\ handlers'[[uid |-> UserOf(initRead), origin |-> "init"]] = 0

\* C13: when a session exists at start-up, loading becomes false only after user has
\* been set to the session's user and the admin-status fetch for that user has
\* completed and been stored in isAdmin.
C13_AdminBeforeLoadingEnds ==
  [][ (SessionAtStartup /\ LoadingEnds) => StartupSettled ]_vars

\* C13, for start-ups during which no auth event is emitted: loading still becomes
\* false only after user and isAdmin are set from the start-up session.
C13_AdminBeforeLoadingEndsNoEvents ==
  [][ (SessionAtStartup /\ LoadingEnds /\ backendSession = initRead /\ events = <<>>
         /\ InFlight(handlers) = 0) => StartupSettled ]_vars

\* the same for every step but the safety timeout's callback: this holds
C13_ExceptTimeout ==
  [][ (SessionAtStartup /\ LoadingEnds /\ backendSession = initRead /\ events = <<>>
         /\ InFlight(handlers) = 0 /\ timer' = timer) => StartupSettled ]_vars
====
